---- MODULE Spec2Model ----
(***************************************************************************)
(* Model of the SPECTER mail assistant: the contact resolver of server.py, *)
(* the response sanitizer and intent engines of ai_engine.py and the task  *)
(* router (Worker) of gui_app.py.                                          *)
(*                                                                         *)
(* Every text is a sequence of one-character strings, so that lower(),     *)
(* strip(), split(), the "in" substring test and json.loads are computed   *)
(* on characters as the Python code computes them.                         *)
(***************************************************************************)
EXTENDS Integers, Sequences, FiniteSets, TLC

(***************************************************************************)
(* Bounds of the model.                                                    *)
(***************************************************************************)
MaxRows == 2
MaxNameLen == 2
MaxCalls == 2
MaxSheets == 3

\* server processes that start at the same time
MaxProcs == 3

(***************************************************************************)
(* Python str helpers.                                                     *)
(***************************************************************************)
\* the Python value None where a text is expected
None == <<"<None>">>

\* str.lower() on one character (ASCII letters used by the model)
LowerChar(c) ==
    CASE c = "A" -> "a"
      [] c = "B" -> "b"
      [] c = "C" -> "c"
      [] OTHER -> c

\* str.lower()
Lower(s) == [i \in 1..Len(s) |-> LowerChar(s[i])]

\* characters removed by str.strip(): Unicode whitespace
IsSpace(c) == c \in {" ", "\n", "\t", "\f"}

RECURSIVE LStrip(_)
LStrip(s) == IF s # <<>> /\ IsSpace(Head(s)) THEN LStrip(Tail(s)) ELSE s

RECURSIVE RStrip(_)
RStrip(s) ==
    IF s # <<>> /\ IsSpace(s[Len(s)]) THEN RStrip(SubSeq(s, 1, Len(s) - 1)) ELSE s

\* str.strip()
Strip(s) == RStrip(LStrip(s))

\* sub occurs in s at position i (1-based)
OccursAt(sub, s, i) ==
    /\ i >= 1
    /\ i + Len(sub) - 1 <= Len(s)
    /\ \A k \in 1..Len(sub) : s[i + k - 1] = sub[k]

\* the Python test "sub in s"
Contains(sub, s) == \E i \in 1..(Len(s) + 1) : OccursAt(sub, s, i)

\* position of the first occurrence of sub in s at or after from, 0 if none
FirstOcc(sub, s, from) ==
    LET hits == {i \in from..(Len(s) + 1) : OccursAt(sub, s, i)}
    IN  IF hits = {} THEN 0 ELSE CHOOSE i \in hits : \A j \in hits : i <= j

\* what follows the first occurrence of sep in s (sep occurs in s)
AfterFirst(sep, s) == SubSeq(s, FirstOcc(sep, s, 1) + Len(sep), Len(s))

\* s.split(sep)[0]
Split0(sep, s) ==
    IF FirstOcc(sep, s, 1) = 0 THEN s ELSE SubSeq(s, 1, FirstOcc(sep, s, 1) - 1)

\* s.split(sep)[1] when sep occurs in s
Split1(sep, s) == Split0(sep, AfterFirst(sep, s))

(***************************************************************************)
(* difflib.SequenceMatcher(None, a, b).ratio() for strings shorter than    *)
(* the 200-character autojunk threshold: the Ratcliff/Obershelp matching   *)
(* blocks.  Ranges are 1-based and closed.                                 *)
(***************************************************************************)
\* length of the common run starting at a[i] and b[j] inside the ranges
RECURSIVE RunLen(_, _, _, _, _, _)
RunLen(a, b, i, j, ahi, bhi) ==
    IF i <= ahi /\ j <= bhi /\ a[i] = b[j]
    THEN 1 + RunLen(a, b, i + 1, j + 1, ahi, bhi)
    ELSE 0

\* SequenceMatcher.find_longest_match: the longest block; of those the one
\* starting earliest in a; of those the one starting earliest in b
find_longest_match(a, b, alo, ahi, blo, bhi) ==
    LET cand == {<<i, j>> \in (alo..ahi) \X (blo..bhi) : a[i] = b[j]}
        len(p) == RunLen(a, b, p[1], p[2], ahi, bhi)
    IN  IF cand = {} THEN <<alo, blo, 0>>
        ELSE LET best == CHOOSE p \in cand : \A q \in cand :
                            \/ len(p) > len(q)
                            \/ /\ len(p) = len(q)
                               /\ \/ p[1] < q[1]
                                  \/ p[1] = q[1] /\ p[2] <= q[2]
             IN  <<best[1], best[2], len(best)>>

\* sum of the sizes of SequenceMatcher.get_matching_blocks()
RECURSIVE MatchCount(_, _, _, _, _, _)
MatchCount(a, b, alo, ahi, blo, bhi) ==
    IF alo > ahi \/ blo > bhi THEN 0
    ELSE LET m == find_longest_match(a, b, alo, ahi, blo, bhi)
             i == m[1]
             j == m[2]
             k == m[3]
         IN  IF k = 0 THEN 0
             ELSE k + MatchCount(a, b, alo, i - 1, blo, j - 1)
                    + MatchCount(a, b, i + k, ahi, j + k, bhi)

\* ratio() as the exact fraction <<numerator, denominator>>:
\* 2.0 * matches / length, and 1.0 when both strings are empty
ratio(a, b) ==
    IF Len(a) + Len(b) = 0 THEN <<1, 1>>
    ELSE <<2 * MatchCount(a, b, 1, Len(a), 1, Len(b)), Len(a) + Len(b)>>

\* comparison of two such fractions (the floats are correctly rounded
\* quotients of small integers, so they compare as the fractions do)
FracGT(x, y) == x[1] * y[2] > y[1] * x[2]

\* the literal 0.6
Threshold == <<3, 5>>

\* the initial highest_score 0.0
ZeroScore == <<0, 1>>

(***************************************************************************)
(* server.py: ContactManager.                                              *)
(***************************************************************************)
BULUNAMADI == <<"B", "U", "L", "U", "N", "A", "M", "A", "D", "I">>

\* "Rehber bos." (the s stands for s-cedilla)
RehberBos == <<"R", "e", "h", "b", "e", "r", " ", "b", "o", "s", ".">>

\* "HATA: Rehber erisilemedi."
HataErisilemedi ==
    <<"H", "A", "T", "A", ":", " ", "R", "e", "h", "b", "e", "r", " ",
      "e", "r", "i", "s", "i", "l", "e", "m", "e", "d", "i", ".">>

\* the prefix of f"HATA: {e}"
HataPrefix == <<"H", "A", "T", "A", ":", " ">>

HATA == <<"H", "A", "T", "A">>

\* the header row written by _create_sheet
Header ==
    << <<"I", "s", "i", "m", " ", "S", "o", "y", "i", "s", "i", "m">>,
       <<"E", "-", "P", "o", "s", "t", "a", " ", "A", "d", "r", "e", "s", "i">> >>

\* _cached_sheet_id = None
NoId == 0

\* the texts str(e) of the exceptions the Google and MCP clients raise
ExcTexts == {<<>>, <<"q", "u", "o", "t", "a">>, <<"n", "o", " ", "a", "@", "x">>}

\* _create_sheet: files().create, then the header update; both inside try
_create_sheet(cached, sheets, createFails, updateFails) ==
    IF createFails
    THEN [cached |-> cached, sheets |-> sheets, ret |-> NoId, raised |-> FALSE,
          searched |-> TRUE, created |-> TRUE]
    ELSE LET new_id == Len(sheets) + 1
         IN  IF updateFails
             THEN [cached |-> cached, sheets |-> Append(sheets, <<>>),
                   ret |-> NoId, raised |-> FALSE,
                   searched |-> TRUE, created |-> TRUE]
             ELSE [cached |-> new_id, sheets |-> Append(sheets, <<Header>>),
                   ret |-> new_id, raised |-> FALSE,
                   searched |-> TRUE, created |-> TRUE]

\* files().list raises
SearchFails == 0 - 1

\* _get_sheet_id without the test of the cache
_get_sheet_idNoCache(cached, sheets, search, createFails, updateFails) ==
    IF search > 0
    THEN [cached |-> search, sheets |-> sheets, ret |-> search,
          raised |-> FALSE, searched |-> TRUE, created |-> FALSE]
    ELSE _create_sheet(cached, sheets, createFails, updateFails)

\* _get_sheet_id.  search = SearchFails: files().list raises; search = 0: it
\* lists no file; search = k > 0: the one file it lists (pageSize=1) is k.
\* searched: files().list was called; created: files().create was called
_get_sheet_id(cached, sheets, search, createFails, updateFails) ==
    IF cached # NoId
    THEN [cached |-> cached, sheets |-> sheets, ret |-> cached,
          raised |-> FALSE, searched |-> FALSE, created |-> FALSE]
    ELSE IF search > 0
         THEN [cached |-> search, sheets |-> sheets, ret |-> search,
               raised |-> FALSE, searched |-> TRUE, created |-> FALSE]
         ELSE _create_sheet(cached, sheets, createFails, updateFails)

\* MatchLoop accepting a similar name before the later rows are looked at
RECURSIVE MatchLoopEarly(_, _, _, _, _)
MatchLoopEarly(rows, i, target, best_match, highest_score) ==
    IF i > Len(rows)
    THEN IF best_match # None /\ best_match # <<>> THEN best_match
         ELSE BULUNAMADI
    ELSE IF Len(rows[i]) < 2
         THEN MatchLoopEarly(rows, i + 1, target, best_match, highest_score)
         ELSE LET contact_name == Strip(Lower(rows[i][1]))
                  contact_email == Strip(rows[i][2])
                  score == ratio(target, contact_name)
              IN  IF Contains(target, contact_name) THEN contact_email
                  ELSE IF FracGT(score, Threshold) THEN contact_email
                       ELSE MatchLoopEarly(rows, i + 1, target, best_match,
                                           highest_score)

\* MatchLoop with "score >= highest_score"
RECURSIVE MatchLoopLastTie(_, _, _, _, _)
MatchLoopLastTie(rows, i, target, best_match, highest_score) ==
    IF i > Len(rows)
    THEN IF best_match # None /\ best_match # <<>> THEN best_match
         ELSE BULUNAMADI
    ELSE IF Len(rows[i]) < 2
         THEN MatchLoopLastTie(rows, i + 1, target, best_match, highest_score)
         ELSE LET contact_name == Strip(Lower(rows[i][1]))
                  contact_email == Strip(rows[i][2])
                  score == ratio(target, contact_name)
              IN  IF Contains(target, contact_name) THEN contact_email
                  ELSE IF FracGT(score, Threshold)
                          /\ ~FracGT(highest_score, score)
                       THEN MatchLoopLastTie(rows, i + 1, target,
                                             contact_email, score)
                       ELSE MatchLoopLastTie(rows, i + 1, target, best_match,
                                             highest_score)

\* the body of the for loop of find_email from row i on
RECURSIVE MatchLoop(_, _, _, _, _)
MatchLoop(rows, i, target, best_match, highest_score) ==
    IF i > Len(rows)
    THEN IF best_match # None /\ best_match # <<>> THEN best_match
         ELSE BULUNAMADI
    ELSE IF Len(rows[i]) < 2
         THEN MatchLoop(rows, i + 1, target, best_match, highest_score)
         ELSE LET contact_name == Strip(Lower(rows[i][1]))
                  contact_email == Strip(rows[i][2])
                  score == ratio(target, contact_name)
              IN  IF Contains(target, contact_name) THEN contact_email
                  ELSE IF FracGT(score, Threshold)
                          /\ FracGT(score, highest_score)
                       THEN MatchLoop(rows, i + 1, target, contact_email, score)
                       ELSE MatchLoop(rows, i + 1, target, best_match,
                                      highest_score)

\* the try block of find_email once the rows are read
MatchRows(rows, name) ==
    IF Len(rows) < 2 THEN RehberBos
    ELSE MatchLoop(rows, 2, Strip(Lower(name)), None, ZeroScore)

\* find_email with values().get outside the try block
find_emailNoTry(cached, sheets, name, env) ==
    LET g == _get_sheet_id(cached, sheets, env.search, env.createFails,
                           env.updateFails)
    IN  IF g.ret = NoId
        THEN [cached |-> g.cached, sheets |-> g.sheets, raised |-> FALSE,
              ret |-> HataErisilemedi, rows |-> <<>>, read |-> FALSE,
              searched |-> g.searched, created |-> g.created]
        ELSE IF env.readFails
             THEN [cached |-> g.cached, sheets |-> g.sheets, raised |-> TRUE,
                   ret |-> None, rows |-> <<>>, read |-> FALSE,
                   searched |-> g.searched, created |-> g.created]
             ELSE [cached |-> g.cached, sheets |-> g.sheets, raised |-> FALSE,
                   ret |-> MatchRows(g.sheets[g.ret], name),
                   rows |-> g.sheets[g.ret], read |-> TRUE,
                   searched |-> g.searched, created |-> g.created]

\* find_email.  env: search, createFails, updateFails as in _get_sheet_id;
\* readFails: values().get raises an exception whose text is env.exc
find_email(cached, sheets, name, env) ==
    LET g == _get_sheet_id(cached, sheets, env.search, env.createFails,
                           env.updateFails)
    IN  IF g.ret = NoId
        THEN [cached |-> g.cached, sheets |-> g.sheets, raised |-> FALSE,
              ret |-> HataErisilemedi, rows |-> <<>>, read |-> FALSE,
              searched |-> g.searched, created |-> g.created]
        ELSE IF env.readFails
             THEN [cached |-> g.cached, sheets |-> g.sheets, raised |-> FALSE,
                   ret |-> HataPrefix \o env.exc, rows |-> <<>>, read |-> FALSE,
                   searched |-> g.searched, created |-> g.created]
             ELSE [cached |-> g.cached, sheets |-> g.sheets, raised |-> FALSE,
                   ret |-> MatchRows(g.sheets[g.ret], name),
                   rows |-> g.sheets[g.ret], read |-> TRUE,
                   searched |-> g.searched, created |-> g.created]

(***************************************************************************)
(* server.py: EmailManager and CalendarManager.                            *)
(***************************************************************************)
\* "Gelen kutusu bos."
GelenKutusuBos ==
    <<"G", "e", "l", "e", "n", " ", "k", "u", "t", "u", "s", "u", " ", "b",
      "o", "s", ".">>

\* "Mail Gonderildi!"
MailGonderildi ==
    <<"M", "a", "i", "l", " ", "G", "o", "n", "d", "e", "r", "i", "l", "d",
      "i", "!">>

\* "Tarih hatasi"
TarihHatasi == <<"T", "a", "r", "i", "h", " ", "h", "a", "t", "a", "s", "i">>

\* f"Takvime Eklendi: {start_dt.strftime('%H:%M')}", for a 09:00 meeting
TakvimeEklendi ==
    <<"T", "a", "k", "v", "i", "m", "e", " ", "E", "k", "l", "e", "n", "d",
      "i", ":", " ", "0", "9", ":", "0", "0">>

\* the prefix of f"Takvim Hatasi: {e}"
TakvimHatasi ==
    <<"T", "a", "k", "v", "i", "m", " ", "H", "a", "t", "a", "s", "i", ":", " ">>

\* the inbox holds no message
NoMail == [from |-> None, subj |-> <<>>, snippet |-> <<>>]

\* EmailManager.get_latest: mail is the newest message of the inbox
get_latest(mail, fails, e) ==
    IF fails THEN <<"H", "a", "t", "a", ":", " ">> \o e
    ELSE IF mail = NoMail THEN GelenKutusuBos
    ELSE LET sender == mail.from
             sender_email ==
                 IF Contains(<<"<">>, sender)
                 THEN Split0(<<">">>, Split1(<<"<">>, sender))
                 ELSE sender
         IN  <<"F", "r", "o", "m", ":", " ">> \o sender
                \o <<"\n", "S", "e", "n", "d", "e", "r", "E", "m", "a", "i",
                     "l", ":", " ">> \o sender_email
                \o <<"\n", "S", "u", "b", "j", "e", "c", "t", ":", " ">>
                \o mail.subj
                \o <<"\n", "C", "o", "n", "t", "e", "n", "t", ":", " ">>
                \o mail.snippet

\* EmailManager.send
send(fails, e) ==
    IF fails THEN <<"H", "a", "t", "a", ":", " ">> \o e ELSE MailGonderildi

\* CalendarManager.schedule
schedule(iso_datetime, fails, e) ==
    IF iso_datetime = None \/ iso_datetime = <<>> THEN TarihHatasi
    ELSE IF fails THEN TakvimHatasi \o e
    ELSE TakvimeEklendi

(***************************************************************************)
(* Inputs of the contact resolver.                                         *)
(***************************************************************************)
NameChars == {"a", "b"}

\* every string over NameChars of length 1..n
StringsUpTo(n) == UNION {[1..k -> NameChars] : k \in 1..n}

\* stored names: mixed case, padded, and one at the 0.6 boundary
NamePool ==
    StringsUpTo(MaxNameLen)
        \cup {<<"A", "b">>, <<" ", "a", " ">>, <<"b", "b", "a", "a", "a">>}

\* names asked for
QueryPool ==
    StringsUpTo(2)
        \cup {<<>>, <<"A">>, <<" ", "b", " ">>, <<"a", "a", "a", "b", "b">>}

\* the address cell of data row i
EmailCell(i) ==
    LET c == <<"p", "q", "r", "s", "t", "u">>[i]
    IN  IF i % 2 = 0 THEN <<" ", c, "@", "x", " ">> ELSE <<c, "@", "x">>

\* a data row with a name but no address cell
ShortRow == <<"<short>">>

\* the cells of data row i
MkRow(n, i) == IF n = ShortRow THEN << <<"a">> >> ELSE <<n, EmailCell(i)>>

\* the contact tables: the header row and up to MaxRows data rows
Tables ==
    UNION {{<<Header>> \o [i \in 1..k |-> MkRow(f[i], i)] :
                f \in [1..k -> NamePool \cup {ShortRow}]} : k \in 0..MaxRows}

(***************************************************************************)
(* json.loads on the texts of the model: objects, arrays, strings without  *)
(* escapes, unsigned integers, true, false and null.  A value is a record  *)
(* [t, s, m]: t its type, s its characters, m its members.                 *)
(***************************************************************************)
JNull == [t |-> "null", s |-> <<>>, m |-> <<>>]

JTrue == [t |-> "true", s |-> <<>>, m |-> <<>>]

JFalse == [t |-> "false", s |-> <<>>, m |-> <<>>]

JNum(digits) == [t |-> "num", s |-> digits, m |-> <<>>]

JStr(chars) == [t |-> "str", s |-> chars, m |-> <<>>]

JArr(items) == [t |-> "arr", s |-> <<>>, m |-> items]

\* a dict: its items [k, v] in insertion order
JObj(pairs) == [t |-> "obj", s |-> <<>>, m |-> pairs]

\* nesting depth at which the decoder raises RecursionError (the
\* interpreter's recursion limit, scaled to the texts of the model)
RecursionLimit == 3

Digits == {"0", "1", "2", "3", "4", "5", "6", "7", "8", "9"}

\* the whitespace json.loads skips
IsJsonSpace(c) == c \in {" ", "\n", "\t", "\r"}

RECURSIVE SkipWS(_, _)
SkipWS(s, p) ==
    IF p <= Len(s) /\ IsJsonSpace(s[p]) THEN SkipWS(s, p + 1) ELSE p

\* the character at p, "" past the end
At(s, p) == IF p >= 1 /\ p <= Len(s) THEN s[p] ELSE ""

\* position of the quote closing a string whose content starts at p; 0 when
\* the string is unterminated or holds a control character or a backslash
StrEnd(s, p) ==
    LET q == FirstOcc(<<"\"">>, s, p)
    IN  IF q = 0 THEN 0
        ELSE IF \E i \in p..(q - 1) : s[i] \in {"\n", "\t", "\r", "\f", "\\"}
             THEN 0
             ELSE q

RECURSIVE NumEnd(_, _)
NumEnd(s, p) == IF At(s, p) \in Digits THEN NumEnd(s, p + 1) ELSE p

\* dict[key] = v
Put(pairs, key, v) ==
    IF \E i \in 1..Len(pairs) : pairs[i].k = key
    THEN [i \in 1..Len(pairs) |->
             IF pairs[i].k = key THEN [k |-> key, v |-> v] ELSE pairs[i]]
    ELSE Append(pairs, [k |-> key, v |-> v])

Fail(kind) == [st |-> kind, v |-> JNull, p |-> 0]

Ok(v, p) == [st |-> "ok", v |-> v, p |-> p]

\* the element of a set of one element.  TheOne({F(x) : x \in {e}}) is
\* LET x == e IN F(x) with e evaluated once, where TLC may evaluate the
\* definition of a LET at every use
TheOne(S) == CHOOSE x \in S : TRUE

RECURSIVE ParseValue(_, _, _)
RECURSIVE ParseItems(_, _, _, _)
RECURSIVE ParsePairs(_, _, _, _)

\* scan_once: the value that starts at p, at nesting depth depth
ParseValue(s, p, depth) ==
    LET c == At(s, p)
    IN  CASE c = "\"" ->
                 IF StrEnd(s, p + 1) = 0 THEN Fail("JSONDecodeError")
                 ELSE Ok(JStr(SubSeq(s, p + 1, StrEnd(s, p + 1) - 1)),
                         StrEnd(s, p + 1) + 1)
          [] c = "[" ->
                 IF depth + 1 > RecursionLimit THEN Fail("RecursionError")
                 ELSE IF At(s, SkipWS(s, p + 1)) = "]"
                      THEN Ok(JArr(<<>>), SkipWS(s, p + 1) + 1)
                      ELSE ParseItems(s, SkipWS(s, p + 1), depth + 1, <<>>)
          [] c = "{" ->
                 IF depth + 1 > RecursionLimit THEN Fail("RecursionError")
                 ELSE IF At(s, SkipWS(s, p + 1)) = "}"
                      THEN Ok(JObj(<<>>), SkipWS(s, p + 1) + 1)
                      ELSE ParsePairs(s, SkipWS(s, p + 1), depth + 1, <<>>)
          [] c \in Digits ->
                 IF c = "0" THEN Ok(JNum(<<"0">>), p + 1)
                 ELSE Ok(JNum(SubSeq(s, p, NumEnd(s, p) - 1)), NumEnd(s, p))
          [] c = "n" /\ OccursAt(<<"n", "u", "l", "l">>, s, p) ->
                 Ok(JNull, p + 4)
          [] c = "t" /\ OccursAt(<<"t", "r", "u", "e">>, s, p) ->
                 Ok(JTrue, p + 4)
          [] c = "f" /\ OccursAt(<<"f", "a", "l", "s", "e">>, s, p) ->
                 Ok(JFalse, p + 5)
          [] OTHER -> Fail("JSONDecodeError")

\* the items of an array from position p on
ParseItems(s, p, depth, acc) ==
    TheOne({
        IF r.st # "ok" THEN r
        ELSE TheOne({
            CASE At(s, q) = "," -> ParseItems(s, SkipWS(s, q + 1), depth, items)
              [] At(s, q) = "]" -> Ok(JArr(items), q + 1)
              [] OTHER -> Fail("JSONDecodeError") :
            q \in {SkipWS(s, r.p)}, items \in {Append(acc, r.v)}}) :
        r \in {ParseValue(s, p, depth)}})

\* the "key": value pairs of an object from position p on
ParsePairs(s, p, depth, acc) ==
    TheOne({
        IF At(s, p) # "\"" \/ e = 0 \/ At(s, SkipWS(s, e + 1)) # ":"
        THEN Fail("JSONDecodeError")
        ELSE TheOne({
            IF r.st # "ok" THEN r
            ELSE TheOne({
                CASE At(s, q) = "," ->
                         ParsePairs(s, SkipWS(s, q + 1), depth, pairs)
                  [] At(s, q) = "}" -> Ok(JObj(pairs), q + 1)
                  [] OTHER -> Fail("JSONDecodeError") :
                q \in {SkipWS(s, r.p)},
                pairs \in {Put(acc, SubSeq(s, p + 1, e - 1), r.v)}}) :
            r \in {ParseValue(s, SkipWS(s, SkipWS(s, e + 1) + 1), depth)}}) :
        e \in {StrEnd(s, p + 1)}})

\* json.loads(text): one value, whitespace around it, nothing else
json_loads(text) ==
    TheOne({
        IF r.st # "ok" THEN r
        ELSE IF SkipWS(text, r.p) = Len(text) + 1 THEN r
             ELSE Fail("JSONDecodeError") :
        r \in {ParseValue(text, SkipWS(text, 1), 0)}})

(***************************************************************************)
(* ai_engine.py: BaseAIEngine._clean_and_parse_json.                       *)
(***************************************************************************)
\* the backtick, which a TLA+ string cannot hold, is written as a tilde
Tick == "~"

\* the marker of three backticks
Fence == <<Tick, Tick, Tick>>

FenceJson == Fence \o <<"j", "s", "o", "n">>

\* lines 107-110: the text handed to the second json.loads, before strip()
Unfenced(text) ==
    IF Contains(FenceJson, text) THEN Split0(Fence, Split1(FenceJson, text))
    ELSE IF Contains(Fence, text) THEN Split0(Fence, Split1(Fence, text))
    ELSE text

\* _clean_and_parse_json: raised is TRUE when an exception reaches the
\* caller; val is the value returned (JNull is None)
_clean_and_parse_json(text) ==
    TheOne({
        IF first.st = "ok" THEN [raised |-> FALSE, val |-> first.v]
        ELSE IF first.st # "JSONDecodeError"
             THEN [raised |-> TRUE, val |-> JNull]
             ELSE TheOne({
                 IF second.st = "ok" THEN [raised |-> FALSE, val |-> second.v]
                 ELSE [raised |-> FALSE, val |-> JNull] :
                 second \in {json_loads(Strip(Unfenced(text)))}}) :
        first \in {json_loads(text)}})

(***************************************************************************)
(* ai_engine.py: OllamaClient.                                             *)
(***************************************************************************)
K_summary == <<"s", "u", "m", "m", "a", "r", "y">>

K_draft_reply == <<"d", "r", "a", "f", "t", "_", "r", "e", "p", "l", "y">>

K_detected_date ==
    <<"d", "e", "t", "e", "c", "t", "e", "d", "_", "d", "a", "t", "e">>

K_meeting_title ==
    <<"m", "e", "e", "t", "i", "n", "g", "_", "t", "i", "t", "l", "e">>

K_target_name == <<"t", "a", "r", "g", "e", "t", "_", "n", "a", "m", "e">>

K_draft_text == <<"d", "r", "a", "f", "t", "_", "t", "e", "x", "t">>

K_extracted_date ==
    <<"e", "x", "t", "r", "a", "c", "t", "e", "d", "_", "d", "a", "t", "e">>

Hata == <<"H", "a", "t", "a">>

\* the prefix of f"Hata: {e}"
HataColon == <<"H", "a", "t", "a", ":", " ">>

\* ValueError("Bos Yanit")
BosYanit == <<"B", "o", "s", " ", "Y", "a", "n", "i", "t">>

\* "AI yaniti anlasilamadi."
AnlasilamadiText ==
    <<"A", "I", " ", "y", "a", "n", "i", "t", "i", " ", "a", "n", "l", "a",
      "s", "i", "l", "a", "m", "a", "d", "i", ".">>

\* "Sistem hatasi."
SistemHatasi ==
    <<"S", "i", "s", "t", "e", "m", " ", "h", "a", "t", "a", "s", "i", ".">>

\* str(e) of the RecursionError of json.loads
RecursionText ==
    <<"m", "a", "x", "i", "m", "u", "m", " ", "r", "e", "c", "u", "r", "s",
      "i", "o", "n", " ", "d", "e", "p", "t", "h", " ", "e", "x", "c", "e",
      "e", "d", "e", "d">>

Pair(key, v) == [k |-> key, v |-> v]

\* the truth value of a Python value
Truthy(v) ==
    CASE v.t \in {"null", "false"} -> FALSE
      [] v.t = "true" -> TRUE
      [] v.t = "num" -> \E i \in 1..Len(v.s) : v.s[i] # "0"
      [] v.t = "str" -> v.s # <<>>
      [] OTHER -> v.m # <<>>

HasKey(v, key) == v.t = "obj" /\ \E i \in 1..Len(v.m) : v.m[i].k = key

\* dict.get(key): None when the key is absent
Get(v, key) ==
    IF HasKey(v, key)
    THEN v.m[CHOOSE i \in 1..Len(v.m) : v.m[i].k = key].v
    ELSE JNull

\* line 153: the record returned from the except block
SummaryFallback(e) ==
    JObj(<<Pair(K_summary, JStr(Hata)),
           Pair(K_draft_reply, JStr(HataColon \o e)),
           Pair(K_detected_date, JNull),
           Pair(K_meeting_title, JStr(Hata))>>)

\* lines 184 and 187
ActionFallback(text) ==
    JObj(<<Pair(K_target_name, JNull),
           Pair(K_draft_text, JStr(text)),
           Pair(K_extracted_date, JNull),
           Pair(K_meeting_title, JStr(Hata))>>)

\* generate_summary_and_reply.  be is what ollama.chat does: it raises an
\* exception whose text is be.exc, or answers with the text be.content
generate_summary_and_reply(be) ==
    IF be.raises THEN [raised |-> FALSE, val |-> SummaryFallback(be.exc)]
    ELSE TheOne({
        IF r.raised
        THEN [raised |-> FALSE, val |-> SummaryFallback(RecursionText)]
        ELSE IF Truthy(r.val) THEN [raised |-> FALSE, val |-> r.val]
             ELSE [raised |-> FALSE, val |-> SummaryFallback(BosYanit)] :
        r \in {_clean_and_parse_json(be.content)}})

\* decide_action
decide_action(be) ==
    IF be.raises THEN [raised |-> FALSE, val |-> ActionFallback(SistemHatasi)]
    ELSE TheOne({
        IF r.raised
        THEN [raised |-> FALSE, val |-> ActionFallback(SistemHatasi)]
        ELSE IF ~Truthy(r.val)
             THEN [raised |-> FALSE, val |-> ActionFallback(AnlasilamadiText)]
             ELSE [raised |-> FALSE, val |-> r.val] :
        r \in {_clean_and_parse_json(be.content)}})

(***************************************************************************)
(* gui_app.py: Worker.                                                     *)
(***************************************************************************)
K_status == <<"s", "t", "a", "t", "u", "s">>

K_found_email == <<"f", "o", "u", "n", "d", "_", "e", "m", "a", "i", "l">>

K_raw_mail == <<"r", "a", "w", "_", "m", "a", "i", "l">>

K_sender == <<"s", "e", "n", "d", "e", "r">>

K_msg == <<"m", "s", "g">>

S_success == <<"s", "u", "c", "c", "e", "s", "s">>

S_command_processed ==
    <<"c", "o", "m", "m", "a", "n", "d", "_", "p", "r", "o", "c", "e", "s",
      "s", "e", "d">>

S_sent == <<"s", "e", "n", "t">>

S_calendar_added ==
    <<"c", "a", "l", "e", "n", "d", "a", "r", "_", "a", "d", "d", "e", "d">>

S_error == <<"e", "r", "r", "o", "r">>

\* no exception is pending
NoExc == None

\* str(e) of the AttributeError of ai_res.get on a value that is no dict
AttrErrText == <<"n", "o", "t", " ", "a", " ", "d", "i", "c", "t">>

\* str(e) of the TypeError of **ai_res on a value that is no mapping
TypeErrText == <<"n", "o", "t", " ", "a", " ", "m", "a", "p", "p", "i", "n", "g">>

Letters ==
    {"a", "b", "c", "d", "e", "f", "g", "h", "i", "j", "k", "l", "m",
     "n", "o", "p", "q", "r", "s", "t", "u", "v", "w", "x", "y", "z"}
        \cup {"A", "B", "C", "D", "E", "F", "G", "H", "I", "J", "K", "L", "M",
     "N", "O", "P", "Q", "R", "S", "T", "U", "V", "W", "X", "Y", "Z"}

\* the characters of the class [\w\.-]
IsAddrChar(c) == c \in Letters \cup Digits \cup {"_", ".", "-"}

\* the end (exclusive) of the run of address characters that starts at p
RECURSIVE AddrRunEnd(_, _)
AddrRunEnd(s, p) ==
    IF p <= Len(s) /\ IsAddrChar(s[p]) THEN AddrRunEnd(s, p + 1) ELSE p

SenderMarker ==
    <<"S", "e", "n", "d", "e", "r", "E", "m", "a", "i", "l", ":", " ">>

\* re.search(r"SenderEmail: ([\w\.-]+@[\w\.-]+)", raw_mail) matches at i
SenderMatchAt(raw_mail, i) ==
    LET a == i + Len(SenderMarker)
        at == AddrRunEnd(raw_mail, a)
    IN  /\ OccursAt(SenderMarker, raw_mail, i)
        /\ at > a
        /\ At(raw_mail, at) = "@"
        /\ AddrRunEnd(raw_mail, at + 1) > at + 1

\* lines 73-74: group(1) of the leftmost match, or None
SenderOf(raw_mail) ==
    LET hits == {i \in 1..Len(raw_mail) : SenderMatchAt(raw_mail, i)}
        i == CHOOSE h \in hits : \A g \in hits : h <= g
        a == i + Len(SenderMarker)
    IN  IF hits = {} THEN JNull
        ELSE JStr(SubSeq(raw_mail, a,
                         AddrRunEnd(raw_mail, AddrRunEnd(raw_mail, a) + 1) - 1))

\* {**d}: the pairs of the dict d put one by one onto pairs
RECURSIVE Merge(_, _, _)
Merge(pairs, d, i) ==
    IF i > Len(d) THEN pairs
    ELSE TheOne({Merge(next, d, i + 1) : next \in {Put(pairs, d[i].k, d[i].v)}})

\* line 78: the result of analyze_last_mail
AnalysisResult(raw_mail, ai_res) ==
    TheOne({JObj(Merge(<<Pair(K_status, JStr(S_success)),
                         Pair(K_raw_mail, JStr(raw_mail)),
                         Pair(K_sender, sender_email)>>, ai_res.m, 1)) :
            sender_email \in {SenderOf(raw_mail)}})

\* NeedsResolve without the test of target_name
NeedsResolveAlways(ai_res) == TRUE

\* line 86: if ai_res.get("target_name")
NeedsResolve(ai_res) == Truthy(Get(ai_res, K_target_name))

\* lines 83-89: found_email from the text the resolver tool returned
FoundEmail(text) == IF Contains(<<"@">>, text) THEN JStr(text) ELSE JNull

\* line 90: the result of process_command
CommandResult(found_email, ai_res) ==
    JObj(Merge(<<Pair(K_status, JStr(S_command_processed)),
                 Pair(K_found_email, found_email)>>, ai_res.m, 1))

\* line 94
SentResult == JObj(<<Pair(K_status, JStr(S_sent))>>)

\* line 98
CalendarResult(text) ==
    JObj(<<Pair(K_status, JStr(S_calendar_added)), Pair(K_msg, JStr(text))>>)

\* line 108
ErrorResult(e) ==
    JObj(<<Pair(K_status, JStr(S_error)), Pair(K_msg, JStr(e))>>)

\* Worker.run emitting only when _run_async returned
EmittedNoErrorSignal(exc, res) == IF exc = NoExc THEN <<res>> ELSE <<>>

\* lines 104-108: the signals Worker.run emits, given the exception that
\* left _run_async (NoExc: none) and the value it returned
Emitted(exc, res) == IF exc = NoExc THEN <<res>> ELSE <<ErrorResult(exc)>>

(***************************************************************************)
(* Inputs of the sanitizer.                                                *)
(***************************************************************************)
MaxTextLen == 4

\* json.dumps, with its ", " and ": " separators
RECURSIVE Dumps(_)
RECURSIVE DumpItems(_, _)
RECURSIVE DumpPairs(_, _)
Dumps(v) ==
    CASE v.t = "null" -> <<"n", "u", "l", "l">>
      [] v.t = "true" -> <<"t", "r", "u", "e">>
      [] v.t = "false" -> <<"f", "a", "l", "s", "e">>
      [] v.t = "num" -> v.s
      [] v.t = "str" -> <<"\"">> \o v.s \o <<"\"">>
      [] v.t = "arr" -> <<"[">> \o DumpItems(v.m, 1) \o <<"]">>
      [] v.t = "obj" -> <<"{">> \o DumpPairs(v.m, 1) \o <<"}">>

DumpItems(items, i) ==
    IF i > Len(items) THEN <<>>
    ELSE Dumps(items[i])
            \o (IF i < Len(items) THEN <<",", " ">> ELSE <<>>)
            \o DumpItems(items, i + 1)

DumpPairs(pairs, i) ==
    IF i > Len(pairs) THEN <<>>
    ELSE <<"\"">> \o pairs[i].k \o <<"\"", ":", " ">> \o Dumps(pairs[i].v)
            \o (IF i < Len(pairs) THEN <<",", " ">> ELSE <<>>)
            \o DumpPairs(pairs, i + 1)

\* structured data a model answers with; the second holds three backticks
\* in a string value
SampleData ==
    {JObj(<< [k |-> <<"k">>, v |-> JNum(<<"1">>)] >>),
     JObj(<< [k |-> <<"k">>, v |-> JStr(Fence)] >>),
     JObj(<< [k |-> <<"a">>, v |-> JArr(<<JNull, JStr(<<"v">>)>>)],
             [k |-> <<"b">>, v |-> JTrue] >>),
     JArr(<<JNum(<<"1">>), JNum(<<"2">>)>>),
     JStr(<<"s">>),
     JObj(<<>>)}

\* commentary before and after a fenced block
Commentary == {<<>>, <<"O", "K", ":", "\n">>, <<" ", "x">>}

\* D on its own, with whitespace around it
BareTexts(d) == {ws \o Dumps(d) \o ws2 : ws \in {<<>>, <<" ">>}, ws2 \in {<<>>, <<"\n">>}}

\* D in a fenced block, tagged json or not, with commentary around it
FencedTexts(d) ==
    {pre \o open \o nl \o Dumps(d) \o nl \o Fence \o post :
        pre \in Commentary, open \in {Fence, FenceJson},
        nl \in {<<>>, <<"\n">>}, post \in Commentary}

RawChars == {Tick, "[", "]", "1", " ", "\f"}

\* every text over RawChars of length 0..MaxTextLen
RawTexts == UNION {[1..k -> RawChars] : k \in 0..MaxTextLen}

(***************************************************************************)
(* Inputs of the intent engines.                                           *)
(***************************************************************************)
\* a SummaryReply as the prompt asks for it
SummaryRecord ==
    JObj(<<Pair(K_summary, JStr(<<"s">>)),
           Pair(K_draft_reply, JStr(<<"d">>)),
           Pair(K_detected_date, JNull),
           Pair(K_meeting_title, JStr(<<"m">>))>>)

\* an ActionDecision as the prompt asks for it, with more pairs after it
ActionRecord(name, more) ==
    JObj(<<Pair(K_target_name, name),
           Pair(K_draft_text, JStr(<<"d">>)),
           Pair(K_extracted_date, JStr(<<"2", "0", "2", "6">>)),
           Pair(K_meeting_title, JStr(<<"m">>))>> \o more)

EngineData == SampleData \cup {SummaryRecord, ActionRecord(JStr(<<"a", "b">>), <<>>)}

\* the texts a backend answers with
EngineTexts ==
    UNION {BareTexts(x) \cup FencedTexts(x) : x \in EngineData}
        \cup {<<"[", "[", "[", "[">>, <<"x">>, <<>>}

\* what ollama.chat does
Backends(texts) ==
    {[raises |-> TRUE, exc |-> e, content |-> <<>>] : e \in ExcTexts}
        \cup {[raises |-> FALSE, exc |-> <<>>, content |-> t] : t \in texts}

\* the tables and names used with the stateful server process
SrvTables ==
    {<<Header>>,
     <<Header, MkRow(<<"a", "b">>, 1)>>,
     <<Header, MkRow(<<"b">>, 1), MkRow(<<"A", "b">>, 2)>>}

SrvQueries == {<<"a">>, <<"a", "b">>, <<"b", "b", "b">>}

(***************************************************************************)
(* Inputs of the Worker.                                                   *)
(***************************************************************************)
Tasks == {"analyze_last_mail", "process_command", "send_reply", "add_calendar"}

\* a name no row of SrvTables matches
Stranger == <<"b", "b", "b">>

\* what the model answers with: decisions that name a contact, a stranger
\* or nobody, decisions that carry keys of the task result, a summary, and
\* a value that is no object
WorkerData ==
    {ActionRecord(JStr(<<"a", "b">>), <<>>),
     ActionRecord(JStr(Stranger), <<>>),
     ActionRecord(JNull, <<>>),
     ActionRecord(JStr(<<>>), <<>>),
     ActionRecord(JStr(Stranger), <<Pair(K_status, JStr(S_error))>>),
     ActionRecord(JStr(Stranger),
                  <<Pair(K_found_email, JStr(<<"z", "@", "x">>))>>),
     SummaryRecord,
     JArr(<<JNum(<<"1">>)>>)}

WorkerTexts == {Dumps(x) : x \in WorkerData} \cup {<<"x">>}

\* the newest message of the inbox
Mails ==
    {NoMail,
     [from |-> <<"A", "n", "n", " ", "<", "a", "@", "x", ">">>,
      subj |-> <<"s">>, snippet |-> <<"c">>],
     [from |-> <<"b", ".", "c", "@", "y">>, subj |-> <<"s">>,
      snippet |-> <<"c">>],
     [from |-> <<"(", "B", "i", "l", "i", "n", "m", "i", "y", "o", "r", ")">>,
      subj |-> <<"(", "Y", "o", "k", ")">>, snippet |-> <<>>]}

\* the iso_datetime of the payload of add_calendar
IsoDates == {<<>>, <<"2", "0", "2", "6">>}

(***************************************************************************)
(* State.                                                                  *)
(***************************************************************************)
VARIABLES
    cached_sheet_id,  \* ContactManager._cached_sheet_id of the server process
    sheets,           \* Drive: the rows of each file named Specter_Contact_List
    srv_pc,           \* server process: "boot" before __main__ ran, "serving"
    srv,              \* the last server operation and what it returned
    calls,            \* number of tool calls served so far
    fm,               \* one evaluation of the matching of find_email
    pj,               \* one evaluation of _clean_and_parse_json
    eng,              \* one call of an intent engine
    w,                \* one run of a Worker thread
    boot,             \* server processes starting at the same time
    ui                \* the main window and the Workers it has started

srvVars == <<cached_sheet_id, sheets, srv_pc, srv, calls>>

vars ==
    <<cached_sheet_id, sheets, srv_pc, srv, calls, fm, pj, eng, w, boot, ui>>

(***************************************************************************)
(* The server process (server.py).                                         *)
(***************************************************************************)
\* what Drive and Sheets do during one call (fields that the call cannot
\* observe are fixed)
SrvEnvs ==
    {e \in [search : SearchFails..MaxSheets, createFails : BOOLEAN,
            updateFails : BOOLEAN, readFails : BOOLEAN, exc : ExcTexts] :
        /\ e.createFails => ~e.updateFails
        /\ ~e.readFails => e.exc = <<>>}

\* Drive lists a file exactly when it holds one
SearchAnswer(search, files) ==
    \/ search = SearchFails
    \/ search = 0 /\ files = <<>>
    \/ search >= 1 /\ search <= Len(files)

NoOp == [op |-> "none", name |-> <<>>, id |-> NoId, ret |-> <<>>,
         raised |-> FALSE, rows |-> <<>>, read |-> FALSE,
         searched |-> FALSE, created |-> FALSE]

NoMatch == [rows |-> <<>>, name |-> <<>>, ret |-> <<>>, done |-> FALSE]

NoParse == [text |-> <<>>, wrap |-> "raw", d |-> JNull, raised |-> FALSE,
            val |-> JNull, done |-> FALSE]

NoEngine ==
    [op |-> "none", be |-> [raises |-> FALSE, exc |-> <<>>, content |-> <<>>],
     raised |-> FALSE, val |-> JNull, done |-> FALSE]

\* no Worker runs.  pc is the position in Worker.run; loop and session are
\* the event loop and the MCP session; failed is the place of a transport
\* failure; exc is the exception that leaves _run_async and res the value
\* it returns; tool_calls and emitted are the calls issued and the signals
\* emitted so far; opened counts the sessions entered
NoWorker ==
    [task |-> "none", pc |-> "idle", loop |-> "none", session |-> "none",
     opened |-> 0, failed |-> "", exc |-> NoExc, res |-> JNull, raw_mail |-> <<>>,
     ai |-> JNull, decided |-> FALSE, resolved |-> FALSE, text |-> <<>>,
     tool_calls |-> <<>>, emitted |-> <<>>]

\* no server processes start side by side
NoBoot == [existed |-> FALSE, pc |-> <<>>, cached |-> <<>>, new_id |-> <<>>]

\* "(Rehberde Bulunamadi)", shown after "Kime: " when there is no recipient
NotInDirectory ==
    JStr(<<"(", "R", "e", "h", "b", "e", "r", "d", "e", " ", "B", "u", "l",
           "u", "n", "a", "m", "a", "d", "i", ")">>)

\* "Toplanti"
Toplanti == <<"T", "o", "p", "l", "a", "n", "t", "i">>

\* the window after __init__.  lbl_to is what the label shows after "Kime: ";
\* worker is the number of the Worker that self.worker refers to and tasks
\* holds the Workers started so far; delivered lists the finished signals
\* in the order in which their slots ran; notices are the message boxes
\* shown; crashed tells that a slot raised
NoWindow ==
    [current_sender |-> JNull, detected_date |-> JNull,
     meeting_title |-> JStr(Toplanti),
     btn_analyze |-> TRUE, btn_send |-> FALSE, card_calendar |-> FALSE,
     status_lbl |-> "ready", txt_summary |-> <<>>, txt_draft |-> <<>>,
     lbl_to |-> JStr(<<"-">>), lbl_cal_info |-> <<>>,
     worker |-> 0, tasks |-> <<>>, delivered |-> <<>>, notices |-> <<>>,
     crashed |-> FALSE]

\* the server process is not part of the run
SrvIdle ==
    /\ cached_sheet_id = NoId
    /\ sheets = <<>>
    /\ srv_pc = "boot"
    /\ srv = NoOp
    /\ calls = 0

SrvInit ==
    /\ cached_sheet_id = NoId
    /\ sheets \in {<<>>} \cup {<<t>> : t \in SrvTables}
    /\ srv_pc = "boot"
    /\ srv = NoOp
    /\ calls = 0
    /\ fm = NoMatch
    /\ pj = NoParse
    /\ eng = NoEngine
    /\ boot = NoBoot
    /\ ui = NoWindow
    /\ w = NoWorker

\* __main__: the cache warming call of _get_sheet_id, then mcp.run()
ServerMain ==
    /\ srv_pc = "boot"
    /\ \E env \in SrvEnvs :
          /\ SearchAnswer(env.search, sheets)
          /\ ~env.readFails
          /\ LET g == _get_sheet_id(cached_sheet_id, sheets, env.search,
                                    env.createFails, env.updateFails)
             IN  /\ Len(g.sheets) <= MaxSheets
                 /\ cached_sheet_id' = g.cached
                 /\ sheets' = g.sheets
                 /\ srv' = [NoOp EXCEPT !.op = "_get_sheet_id", !.id = g.ret,
                                        !.raised = g.raised,
                                        !.searched = g.searched,
                                        !.created = g.created]
    /\ srv_pc' = "serving"

\* the server process started on its own
Startup == ServerMain /\ UNCHANGED <<calls, fm, pj, eng, w, boot, ui>>

\* the tool find_email_by_name(name)
find_email_by_name(name) ==
    /\ srv_pc = "serving"
    /\ calls < MaxCalls
    /\ \E env \in SrvEnvs :
          /\ SearchAnswer(env.search, sheets)
          /\ LET r == find_email(cached_sheet_id, sheets, name, env)
             IN  /\ Len(r.sheets) <= MaxSheets
                 /\ cached_sheet_id' = r.cached
                 /\ sheets' = r.sheets
                 /\ srv' = [op |-> "find_email", name |-> name, id |-> r.cached,
                            ret |-> r.ret, raised |-> r.raised, rows |-> r.rows,
                            read |-> r.read, searched |-> r.searched,
                            created |-> r.created]
    /\ calls' = calls + 1
    /\ UNCHANGED srv_pc

\* a client calls the tool with one of the names
FindEmailByName ==
    /\ \E name \in SrvQueries : find_email_by_name(name)
    /\ UNCHANGED <<fm, pj, eng, w, boot, ui>>

SrvNext == Startup \/ FindEmailByName

SpecServer == SrvInit /\ [][SrvNext]_vars

(***************************************************************************)
(* The matching of find_email as a function of the rows read and the name. *)
(***************************************************************************)
FindInit ==
    /\ SrvIdle
    /\ pj = NoParse
    /\ eng = NoEngine
    /\ boot = NoBoot
    /\ ui = NoWindow
    /\ w = NoWorker
    /\ \E t \in Tables, n \in QueryPool :
          fm = [rows |-> t, name |-> n, ret |-> <<>>, done |-> FALSE]

\* lines 155-175 of find_email on the rows read
Match ==
    /\ ~fm.done
    /\ fm' = [fm EXCEPT !.ret = MatchRows(fm.rows, fm.name), !.done = TRUE]
    /\ UNCHANGED <<srvVars, pj, eng, w, boot, ui>>

SpecFind == FindInit /\ [][Match]_vars

(***************************************************************************)
(* The response sanitizer as a function of the raw model text.             *)
(***************************************************************************)
ParseInit ==
    /\ SrvIdle
    /\ fm = NoMatch
    /\ eng = NoEngine
    /\ boot = NoBoot
    /\ ui = NoWindow
    /\ w = NoWorker
    /\ \/ \E data \in SampleData : \E txt \in BareTexts(data) :
             pj = [NoParse EXCEPT !.text = txt, !.wrap = "none", !.d = data]
       \/ \E data \in SampleData : \E txt \in FencedTexts(data) :
             pj = [NoParse EXCEPT !.text = txt, !.wrap = "fenced", !.d = data]
       \/ \E txt \in RawTexts : pj = [NoParse EXCEPT !.text = txt]

\* one call of _clean_and_parse_json(text)
Parse ==
    /\ ~pj.done
    /\ \E r \in {_clean_and_parse_json(pj.text)} :
          pj' = [pj EXCEPT !.raised = r.raised, !.val = r.val, !.done = TRUE]
    /\ UNCHANGED <<srvVars, fm, eng, w, boot, ui>>

SpecParse == ParseInit /\ [][Parse]_vars

(***************************************************************************)
(* The intent engines as functions of what the backend does.               *)
(***************************************************************************)
EngineInit ==
    /\ SrvIdle
    /\ fm = NoMatch
    /\ pj = NoParse
    /\ eng = NoEngine
    /\ boot = NoBoot
    /\ ui = NoWindow
    /\ w = NoWorker

\* one call of OllamaClient.generate_summary_and_reply
GenerateSummaryAndReply ==
    /\ eng.op = "none"
    /\ \E be \in Backends(EngineTexts) :
          \E r \in {generate_summary_and_reply(be)} :
             eng' = [op |-> "generate_summary_and_reply", be |-> be,
                     raised |-> r.raised, val |-> r.val, done |-> TRUE]
    /\ UNCHANGED <<srvVars, fm, pj, w, boot, ui>>

\* one call of OllamaClient.decide_action
DecideAction ==
    /\ eng.op = "none"
    /\ \E be \in Backends(EngineTexts) :
          \E r \in {decide_action(be)} :
             eng' = [op |-> "decide_action", be |-> be,
                     raised |-> r.raised, val |-> r.val, done |-> TRUE]
    /\ UNCHANGED <<srvVars, fm, pj, w, boot, ui>>

EngineNext == GenerateSummaryAndReply \/ DecideAction

SpecEngine == EngineInit /\ [][EngineNext]_vars

(***************************************************************************)
(* One run of a Worker thread (gui_app.py) against the server process it   *)
(* starts.  An awaited call either returns or raises.                      *)
(***************************************************************************)
WorkerInit ==
    /\ cached_sheet_id = NoId
    /\ sheets \in {<<>>} \cup {<<t>> : t \in SrvTables}
    /\ srv_pc = "boot"
    /\ srv = NoOp
    /\ calls = 0
    /\ fm = NoMatch
    /\ pj = NoParse
    /\ eng = NoEngine
    /\ boot = NoBoot
    /\ ui = NoWindow
    /\ \E task \in Tasks : w = [NoWorker EXCEPT !.task = task, !.pc = "start"]

\* the record of a tool call: decided tells whether decide_action had
\* returned when the call was issued
ToolCall(tool, arg) ==
    [tool |-> tool, arg |-> arg, decided |-> w.decided, session |-> w.session]

\* Raise with the exits of the async with blocks skipped
RaiseSkipRelease(place, e, pc) ==
    [w EXCEPT !.failed = place, !.exc = e, !.pc = "emit"]

\* an awaited call of the session raises e
Raise(place, e, pc) == [w EXCEPT !.failed = place, !.exc = e, !.pc = pc]

\* lines 102-103: Worker.run creates the event loop
RunBegin ==
    /\ w.pc = "start"
    /\ w' = [w EXCEPT !.loop = "open", !.pc = "open"]
    /\ UNCHANGED <<srvVars, fm, pj, eng, boot, ui>>

\* lines 63-64: stdio_client starts server.py and ClientSession is entered
OpenSession ==
    /\ w.pc = "open"
    /\ \/ \E e \in ExcTexts : w' = Raise("open", e, "emit")
       \/ w' = [w EXCEPT !.session = "open", !.opened = @ + 1,
                          !.pc = "initialize"]
    /\ UNCHANGED <<srvVars, fm, pj, eng, boot, ui>>

\* line 65: session.initialize(), answered once the server runs mcp.run()
Initialize ==
    /\ w.pc = "initialize"
    /\ \/ /\ \E e \in ExcTexts : w' = Raise("initialize", e, "release")
          /\ UNCHANGED srvVars
       \/ /\ ServerMain
          /\ w' = [w EXCEPT !.pc = w.task]
          /\ UNCHANGED calls
    /\ UNCHANGED <<fm, pj, eng, boot, ui>>

\* lines 69-70: call_tool("get_latest_email")
FetchMail ==
    /\ w.pc = "analyze_last_mail"
    /\ \/ \E e \in ExcTexts : w' = Raise("call_tool", e, "release")
       \/ \E mail \in Mails, fails \in BOOLEAN, e \in ExcTexts :
             /\ ~fails => e = <<>>
             /\ w' = [w EXCEPT
                        !.raw_mail = get_latest(mail, fails, e),
                        !.tool_calls =
                            Append(@, ToolCall("get_latest_email", JNull)),
                        !.pc = "summarize"]
    /\ UNCHANGED <<srvVars, fm, pj, eng, boot, ui>>

\* lines 73-78: the sender, the summary and the result of the analysis
Summarize ==
    /\ w.pc = "summarize"
    /\ \E be \in Backends(WorkerTexts) :
          \E ai_res \in {generate_summary_and_reply(be).val} :
              IF ai_res.t # "obj"
              THEN w' = [w EXCEPT !.ai = ai_res, !.exc = TypeErrText,
                                  !.pc = "release"]
              ELSE w' = [w EXCEPT !.ai = ai_res,
                                  !.res = AnalysisResult(w.raw_mail, ai_res),
                                  !.pc = "release"]
    /\ UNCHANGED <<srvVars, fm, pj, eng, boot, ui>>

\* lines 81-86 and, when no name was decided, line 90
Decide ==
    /\ w.pc = "process_command"
    /\ \E be \in Backends(WorkerTexts) :
          \E ai_res \in {decide_action(be).val} :
              IF ai_res.t # "obj"
              THEN w' = [w EXCEPT !.ai = ai_res, !.decided = TRUE,
                                  !.exc = AttrErrText, !.pc = "release"]
              ELSE IF NeedsResolve(ai_res)
              THEN w' = [w EXCEPT !.ai = ai_res, !.decided = TRUE,
                                  !.pc = "resolve"]
              ELSE w' = [w EXCEPT !.ai = ai_res, !.decided = TRUE,
                                  !.res = CommandResult(JNull, ai_res),
                                  !.pc = "release"]
    /\ UNCHANGED <<srvVars, fm, pj, eng, boot, ui>>

\* lines 87-90: call_tool("find_email_by_name") and the result of the task
Resolve ==
    /\ w.pc = "resolve"
    /\ LET name == Get(w.ai, K_target_name)
       IN  \/ /\ \E e \in ExcTexts :
                    w' = [Raise("call_tool", e, "release") EXCEPT
                            !.tool_calls =
                                Append(@, ToolCall("find_email_by_name", name))]
              /\ UNCHANGED srvVars
           \/ /\ name.t = "str"
              /\ find_email_by_name(name.s)
              /\ w' = [w EXCEPT
                         !.tool_calls =
                             Append(@, ToolCall("find_email_by_name", name)),
                         !.resolved = TRUE,
                         !.text = srv'.ret,
                         !.res = CommandResult(FoundEmail(srv'.ret), w.ai),
                         !.pc = "release"]
    /\ UNCHANGED <<fm, pj, eng, boot, ui>>

\* lines 93-94: call_tool("send_email_action"); the text it returns is not
\* looked at
SendReply ==
    /\ w.pc = "send_reply"
    /\ \/ \E e \in ExcTexts : w' = Raise("call_tool", e, "release")
       \/ \E fails \in BOOLEAN, e \in ExcTexts :
             /\ ~fails => e = <<>>
             /\ w' = [w EXCEPT
                        !.text = send(fails, e),
                        !.tool_calls =
                            Append(@, ToolCall("send_email_action", JNull)),
                        !.res = SentResult,
                        !.pc = "release"]
    /\ UNCHANGED <<srvVars, fm, pj, eng, boot, ui>>

\* lines 97-98: call_tool("schedule_meeting")
AddCalendar ==
    /\ w.pc = "add_calendar"
    /\ \/ \E e \in ExcTexts : w' = Raise("call_tool", e, "release")
       \/ \E iso \in IsoDates, fails \in BOOLEAN, e \in ExcTexts :
             /\ ~fails => e = <<>>
             /\ w' = [w EXCEPT
                        !.text = schedule(iso, fails, e),
                        !.tool_calls =
                            Append(@, ToolCall("schedule_meeting", JNull)),
                        !.res = CalendarResult(schedule(iso, fails, e)),
                        !.pc = "release"]
    /\ UNCHANGED <<srvVars, fm, pj, eng, boot, ui>>

\* lines 63-64: the exits of the two async with blocks, which may raise
Release ==
    /\ w.pc = "release"
    /\ \/ w' = [w EXCEPT !.session = "released", !.pc = "emit"]
       \/ \E e \in ExcTexts :
             w' = [w EXCEPT !.session = "released", !.exc = e,
                            !.failed = IF @ = "" THEN "close" ELSE @,
                            !.pc = "emit"]
    /\ UNCHANGED <<srvVars, fm, pj, eng, boot, ui>>

\* lines 104-108: the finished signal
Emit ==
    /\ w.pc = "emit"
    /\ w' = [w EXCEPT !.emitted = @ \o Emitted(w.exc, w.res), !.pc = "close"]
    /\ UNCHANGED <<srvVars, fm, pj, eng, boot, ui>>

\* lines 109-110
CloseLoop ==
    /\ w.pc = "close"
    /\ w' = [w EXCEPT !.loop = "closed", !.pc = "done"]
    /\ UNCHANGED <<srvVars, fm, pj, eng, boot, ui>>

WorkerNext ==
    \/ RunBegin
    \/ OpenSession
    \/ Initialize
    \/ FetchMail
    \/ Summarize
    \/ Decide
    \/ Resolve
    \/ SendReply
    \/ AddCalendar
    \/ Release
    \/ Emit
    \/ CloseLoop

SpecWorker == WorkerInit /\ [][WorkerNext]_vars

\* every awaited call eventually returns or raises, and the thread runs
SpecWorkerFair == SpecWorker /\ WF_vars(WorkerNext)

(***************************************************************************)
(* Server processes started side by side, one by each Worker, each running *)
(* the cache warming call of __main__ against the same Drive.  The calls   *)
(* of one _get_sheet_id to Drive and Sheets are separate steps.            *)
(***************************************************************************)
Procs == 1..MaxProcs

StartupsInit ==
    /\ cached_sheet_id = NoId
    /\ sheets \in {<<>>, <<<<Header>>>>}
    /\ srv_pc = "boot"
    /\ srv = NoOp
    /\ calls = 0
    /\ fm = NoMatch
    /\ pj = NoParse
    /\ eng = NoEngine
    /\ w = NoWorker
    /\ boot = [existed |-> sheets # <<>>,
               pc |-> [p \in Procs |-> "search"],
               cached |-> [p \in Procs |-> NoId],
               new_id |-> [p \in Procs |-> NoId]]
    /\ ui = NoWindow

\* lines 103-119: the cache is empty; files().list raises, lists nothing or
\* lists a file
BootSearch(p) ==
    /\ boot.pc[p] = "search"
    /\ \E search \in SearchFails..Len(sheets) :
          /\ SearchAnswer(search, sheets)
          /\ IF search > 0
             THEN boot' = [boot EXCEPT !.cached[p] = search,
                                       !.pc[p] = "serving"]
             ELSE boot' = [boot EXCEPT !.pc[p] = "create"]
    /\ UNCHANGED <<srvVars, fm, pj, eng, w, ui>>

\* lines 127-130: files().create
BootCreate(p) ==
    /\ boot.pc[p] = "create"
    /\ \/ /\ boot' = [boot EXCEPT !.pc[p] = "serving"]
          /\ UNCHANGED sheets
       \/ /\ sheets' = Append(sheets, <<>>)
          /\ boot' = [boot EXCEPT !.new_id[p] = Len(sheets) + 1,
                                  !.pc[p] = "update"]
    /\ UNCHANGED <<cached_sheet_id, srv_pc, srv, calls, fm, pj, eng, w, ui>>

\* lines 132-141: the header row is written and the id is cached
BootUpdate(p) ==
    /\ boot.pc[p] = "update"
    /\ \/ /\ boot' = [boot EXCEPT !.pc[p] = "serving"]
          /\ UNCHANGED sheets
       \/ /\ sheets' = [sheets EXCEPT ![boot.new_id[p]] = <<Header>>]
          /\ boot' = [boot EXCEPT !.cached[p] = boot.new_id[p],
                                  !.pc[p] = "serving"]
    /\ UNCHANGED <<cached_sheet_id, srv_pc, srv, calls, fm, pj, eng, w, ui>>

StartupsNext ==
    \E p \in Procs : BootSearch(p) \/ BootCreate(p) \/ BootUpdate(p)

SpecStartups == StartupsInit /\ [][StartupsNext]_vars

(***************************************************************************)
(* The main window (gui_app.py): the slots that start Workers and the      *)
(* slots their finished signals run.  A finished signal is queued to the   *)
(* thread of the window, so slots run one at a time, in the order in which *)
(* the Workers finish.                                                     *)
(***************************************************************************)
winOthers == <<srvVars, fm, pj, eng, w, boot>>

\* the payload of a Worker
NoData ==
    [command |-> <<>>, to_email |-> JNull, subject |-> JNull,
     content |-> <<>>, summary |-> JNull, iso_datetime |-> JNull]

\* a summary that names a date
DatedSummary ==
    JObj(<<Pair(K_summary, JStr(<<"t">>)),
           Pair(K_draft_reply, JStr(<<"r">>)),
           Pair(K_detected_date, JStr(<<"2", "0", "2", "7">>)),
           Pair(K_meeting_title, JStr(<<"n">>))>>)

\* what generate_summary_and_reply hands to the Worker: a summary as asked
\* for, one with a date, the record of its except block, and an object
\* without the fields
WindowSummaries ==
    {SummaryRecord, DatedSummary, SummaryFallback(<<>>),
     JObj(<<Pair(<<"k">>, JNum(<<"1">>))>>)}

\* the inbox is empty, or its newest message is from "Ann <a@x>"
WindowMails == {mail \in Mails : mail = NoMail \/ Contains(<<"<">>, mail.from)}

\* what decide_action hands to the Worker
WindowDecisions ==
    {ActionRecord(JStr(<<"a", "b">>), <<>>), ActionFallback(SistemHatasi)}

\* what the Worker of a task can emit, with the text its tool returned:
\* lines 69-98 for the value of _run_async, line 108 for an exception
Outcomes(t) ==
    {[text |-> <<>>, res |-> ErrorResult(e)] : e \in ExcTexts}
        \cup
    CASE t.task = "analyze_last_mail" ->
            {[text |-> raw_mail, res |-> AnalysisResult(raw_mail, ai_res)] :
                raw_mail \in {get_latest(mail, FALSE, <<>>) :
                                 mail \in WindowMails},
                ai_res \in WindowSummaries}
      [] t.task = "process_command" ->
            {[text |-> text, res |-> CommandResult(FoundEmail(text), ai_res)] :
                text \in {BULUNAMADI, EmailCell(1)},
                ai_res \in WindowDecisions}
      [] t.task = "send_reply" ->
            {[text |-> send(fails, e), res |-> SentResult] :
                fails \in BOOLEAN, e \in {<<"q", "u", "o", "t", "a">>}}
      [] OTHER ->
            IF t.data.iso_datetime.t # "str" THEN {}
            ELSE {[text |-> text, res |-> CalendarResult(text)] :
                     text \in {schedule(t.data.iso_datetime.s, fails,
                                        <<"q", "u", "o", "t", "a">>) :
                                  fails \in BOOLEAN}}

\* self.worker = Worker(...); finished.connect(slot); start()
StartWorker(u, task, data) ==
    [u EXCEPT !.worker = Len(u.tasks) + 1,
              !.tasks = Append(@, [task |-> task, data |-> data,
                                   state |-> "running"])]

\* lines 251-259
_set_processing_state(u, processing, msg) ==
    LET a == [u EXCEPT !.btn_analyze = ~processing, !.btn_send = FALSE,
                       !.status_lbl = msg]
    IN  IF processing
        THEN [a EXCEPT !.txt_summary = <<>>, !.txt_draft = <<>>,
                       !.card_calendar = FALSE]
        ELSE a

\* lines 233-238
start_analysis(u) ==
    StartWorker(_set_processing_state(u, TRUE, "analyzing"),
                "analyze_last_mail", NoData)

\* lines 240-249, for a command that is not empty
run_custom_command(u, cmd) ==
    StartWorker([u EXCEPT !.status_lbl = "processing",
                          !.card_calendar = FALSE],
                "process_command", [NoData EXCEPT !.command = cmd])

\* lines 282-292; setText raises TypeError on a value that is no str
update_draft_area(u, text, to_email, date, title) ==
    IF text.t # "str" THEN [u EXCEPT !.crashed = TRUE]
    ELSE LET a == [u EXCEPT !.txt_draft = text.s,
                            !.lbl_to = IF Truthy(to_email) THEN to_email
                                       ELSE NotInDirectory,
                            !.btn_send = Truthy(to_email)]
         IN  IF Truthy(date)
             THEN [a EXCEPT !.detected_date = date, !.meeting_title = title,
                            !.card_calendar = TRUE,
                            !.lbl_cal_info = <<title, date>>]
             ELSE a

\* a message box
Notice(box, title, text) == [box |-> box, title |-> title, text |-> text]

\* lines 261-271
on_analysis_done(u, res) ==
    LET a == [u EXCEPT !.btn_analyze = TRUE]
    IN  IF Get(res, K_status) = JStr(S_error)
        THEN IF Get(res, K_msg).t # "str" THEN [a EXCEPT !.crashed = TRUE]
             ELSE [a EXCEPT !.notices =
                                Append(@, Notice("critical", "Hata",
                                                 Get(res, K_msg).s)),
                            !.status_lbl = "error"]
        ELSE IF Get(res, K_summary).t # "str"
             THEN [a EXCEPT !.status_lbl = "analysis_done", !.crashed = TRUE]
             ELSE update_draft_area(
                      [a EXCEPT !.status_lbl = "analysis_done",
                                !.txt_summary = Get(res, K_summary).s],
                      Get(res, K_draft_reply), Get(res, K_sender),
                      Get(res, K_detected_date), Get(res, K_meeting_title))

\* lines 273-280
on_command_done(u, res) ==
    IF Get(res, K_status) = JStr(S_error) THEN u
    ELSE LET email == Get(res, K_found_email)
         IN  update_draft_area(
                 [u EXCEPT !.status_lbl = IF Truthy(email) THEN "contact"
                                          ELSE "contact_not_found",
                           !.current_sender = email],
                 Get(res, K_draft_text), email,
                 Get(res, K_extracted_date), Get(res, K_meeting_title))

\* lines 294-302: the payload is read when the button is clicked
send_mail(u) ==
    StartWorker(u, "send_reply",
                [NoData EXCEPT !.to_email = u.current_sender,
                               !.subject = u.meeting_title,
                               !.content = u.txt_draft])

\* line 301: the slot of the Worker of send_mail takes no argument
on_sent(u, res) ==
    [u EXCEPT !.notices = Append(@, Notice("information", "Bilgi",
                                           MailGonderildi))]

\* lines 304-311
add_to_calendar(u) ==
    StartWorker(u, "add_calendar",
                [NoData EXCEPT !.summary = u.meeting_title,
                               !.iso_datetime = u.detected_date])

\* line 310: the slot of the Worker of add_to_calendar
on_calendar(u, res) ==
    IF Get(res, K_msg).t # "str" THEN [u EXCEPT !.crashed = TRUE]
    ELSE [u EXCEPT !.notices = Append(@, Notice("information", "Takvim",
                                                Get(res, K_msg).s))]

\* the number of Workers a run of the window starts
MaxTasks == 2

\* the texts typed into the command line
Commands == {<<>>, <<"c">>}

WindowInit ==
    /\ cached_sheet_id = NoId
    /\ sheets = <<>>
    /\ srv_pc = "boot"
    /\ srv = NoOp
    /\ calls = 0
    /\ fm = NoMatch
    /\ pj = NoParse
    /\ eng = NoEngine
    /\ w = NoWorker
    /\ boot = NoBoot
    /\ ui = NoWindow

\* the window takes clicks while no slot has raised
CanStart == ~ui.crashed /\ Len(ui.tasks) < MaxTasks

\* btn_analyze is clicked
ClickAnalyze ==
    /\ CanStart
    /\ ui.btn_analyze
    /\ ui' = start_analysis(ui)
    /\ UNCHANGED winOthers

\* return is pressed in input_cmd, or the run button is clicked
EnterCommand ==
    /\ CanStart
    /\ \E cmd \in Commands :
          ui' = IF cmd = <<>> THEN ui ELSE run_custom_command(ui, cmd)
    /\ UNCHANGED winOthers

\* btn_send is clicked
ClickSend ==
    /\ CanStart
    /\ ui.btn_send
    /\ ui' = send_mail(ui)
    /\ UNCHANGED winOthers

\* the button of card_calendar is clicked
ClickAddCalendar ==
    /\ CanStart
    /\ ui.card_calendar
    /\ ui' = add_to_calendar(ui)
    /\ UNCHANGED winOthers

\* Slot with the signals of Workers other than self.worker dropped
SlotIfCurrent(u, k, res) ==
    IF u.worker # k THEN u
    ELSE CASE u.tasks[k].task = "analyze_last_mail" -> on_analysis_done(u, res)
           [] u.tasks[k].task = "process_command" -> on_command_done(u, res)
           [] u.tasks[k].task = "send_reply" -> on_sent(u, res)
           [] OTHER -> on_calendar(u, res)

\* the slot connected to Worker k, applied to the signal it receives
Slot(u, k, res) ==
    CASE u.tasks[k].task = "analyze_last_mail" -> on_analysis_done(u, res)
      [] u.tasks[k].task = "process_command" -> on_command_done(u, res)
      [] u.tasks[k].task = "send_reply" -> on_sent(u, res)
      [] OTHER -> on_calendar(u, res)

\* Worker k finishes and its signal is delivered: the slot runs whether or
\* not self.worker still refers to Worker k
Finished(k) ==
    /\ ~ui.crashed
    /\ ui.tasks[k].state = "running"
    /\ \E o \in Outcomes(ui.tasks[k]) :
          \E u \in {Slot(ui, k, o.res)} :
              ui' = [u EXCEPT !.tasks[k].state = "done",
                              !.delivered =
                                  Append(@, [id |-> k, res |-> o.res,
                                             text |-> o.text])]
    /\ UNCHANGED winOthers

WindowNext ==
    \/ ClickAnalyze
    \/ EnterCommand
    \/ ClickSend
    \/ ClickAddCalendar
    \/ \E k \in 1..Len(ui.tasks) : Finished(k)

SpecWindow == WindowInit /\ [][WindowNext]_vars

(***************************************************************************)
(* The contact resolver: the two-pass reference of the specification.      *)
(***************************************************************************)
\* the data rows that have a name and an address
Records(rows) == {i \in 2..Len(rows) : Len(rows[i]) >= 2}

NormName(rows, i) == Strip(Lower(rows[i][1]))

EmailAt(rows, i) == Strip(rows[i][2])

MinOf(S) == CHOOSE i \in S : \A j \in S : i <= j

\* first pass: the rows whose normalized name contains the normalized query
Containing(rows, name) ==
    {i \in Records(rows) : Contains(Strip(Lower(name)), NormName(rows, i))}

ScoreOf(rows, name, i) == ratio(Strip(Lower(name)), NormName(rows, i))

\* second pass: the rows that reach the maximum similarity
MaxRowsOf(rows, name) ==
    {i \in Records(rows) :
        \A j \in Records(rows) :
            ~FracGT(ScoreOf(rows, name, j), ScoreOf(rows, name, i))}

TwoPass(rows, name) ==
    IF Containing(rows, name) # {}
    THEN EmailAt(rows, MinOf(Containing(rows, name)))
    ELSE IF /\ Records(rows) # {}
            /\ FracGT(ScoreOf(rows, name, MinOf(MaxRowsOf(rows, name))),
                      Threshold)
         THEN EmailAt(rows, MinOf(MaxRowsOf(rows, name)))
         ELSE BULUNAMADI

\* C4: on a table with at least one data row find_email returns what the
\* two-pass reference returns: the address of the first row whose name
\* contains the query, whatever the similarity of the rows before it, and
\* the similarity result only when no row contains the query.
C4_TwoPassReference ==
    (fm.done /\ Len(fm.rows) >= 2) => fm.ret = TwoPass(fm.rows, fm.name)

\* a similar (> 0.6) row stands before the first containing row, whose
\* address is returned
C4_Witness ==
    /\ fm.done
    /\ Containing(fm.rows, fm.name) # {}
    /\ \E i \in Records(fm.rows) :
          /\ i < MinOf(Containing(fm.rows, fm.name))
          /\ FracGT(ScoreOf(fm.rows, fm.name, i), Threshold)
    /\ fm.ret = EmailAt(fm.rows, MinOf(Containing(fm.rows, fm.name)))

\* C5: when no stored name contains the query, the address of the first row
\* with the maximum similarity is returned if that maximum is strictly
\* greater than 0.6, and "BULUNAMADI" is returned if no row scores above 0.6.
C5_FuzzyThreshold ==
    (fm.done /\ Len(fm.rows) >= 2 /\ Containing(fm.rows, fm.name) = {}) =>
        LET above == {i \in Records(fm.rows) :
                         FracGT(ScoreOf(fm.rows, fm.name, i), Threshold)}
        IN  /\ above = {} => fm.ret = BULUNAMADI
            /\ above # {} =>
                  \E i \in above :
                      /\ fm.ret = EmailAt(fm.rows, i)
                      /\ \A j \in Records(fm.rows) :
                            /\ ~FracGT(ScoreOf(fm.rows, fm.name, j),
                                       ScoreOf(fm.rows, fm.name, i))
                            /\ j < i => FracGT(ScoreOf(fm.rows, fm.name, i),
                                               ScoreOf(fm.rows, fm.name, j))

\* two rows share a maximum above 0.6 and the first one's address is returned
C5_Witness ==
    /\ fm.done
    /\ Containing(fm.rows, fm.name) = {}
    /\ Cardinality(MaxRowsOf(fm.rows, fm.name)) >= 2
    /\ FracGT(ScoreOf(fm.rows, fm.name, MinOf(MaxRowsOf(fm.rows, fm.name))),
              Threshold)
    /\ fm.ret = EmailAt(fm.rows, MinOf(MaxRowsOf(fm.rows, fm.name)))

\* a row scores exactly 0.6 and is not accepted
C5_BoundaryWitness ==
    /\ fm.done
    /\ \E i \in Records(fm.rows) : ScoreOf(fm.rows, fm.name, i) = <<6, 10>>
    /\ fm.ret = BULUNAMADI

\* C6: find_email never raises; when the sheet id cannot be obtained or the
\* table cannot be read it returns a text that begins with "HATA".
C6_NeverRaises ==
    srv.op = "find_email" =>
        /\ ~srv.raised
        /\ ~srv.read => OccursAt(HATA, srv.ret, 1)

\* the Drive search and the sheet creation both failed
C6_Witness ==
    /\ srv.op = "find_email"
    /\ ~srv.raised
    /\ srv.id = NoId
    /\ srv.ret = HataErisilemedi

\* the sheet id was obtained and reading the table failed
C6_ReadWitness ==
    /\ srv.op = "find_email"
    /\ srv.id # NoId
    /\ ~srv.read
    /\ OccursAt(HataPrefix, srv.ret, 1)

(***************************************************************************)
(* The response sanitizer.                                                 *)
(***************************************************************************)
\* the positions at which a three-backtick marker starts
Markers(text) == {i \in 1..Len(text) : OccursAt(Fence, text, i)}

\* what follows the marker at i, without its json tag
AfterMarker(text, i) ==
    IF OccursAt(FenceJson, text, i)
    THEN SubSeq(text, i + Len(FenceJson), Len(text))
    ELSE SubSeq(text, i + Len(Fence), Len(text))

\* a fenced block (an opening marker, optionally tagged json, and a closing
\* marker with no marker between them) holds valid structured data
HasValidFencedBlock(text) ==
    \E i \in Markers(text) :
        /\ Contains(Fence, AfterMarker(text, i))
        /\ json_loads(Strip(Split0(Fence, AfterMarker(text, i)))).st = "ok"

\* C7: a text that is valid structured data D, and a text that wraps D in a
\* fenced block (tagged json or not, with commentary around it), both yield
\* D, for every D, also one whose string values hold triple backticks.
C7_RoundTrip ==
    (pj.done /\ pj.wrap \in {"none", "fenced"}) =>
        (~pj.raised /\ pj.val = pj.d)

\* C8: a text that is not valid structured data and has no fenced block
\* with valid structured data inside yields None, and nothing is raised.
C8_NoResult ==
    (/\ pj.done
     /\ json_loads(pj.text).st # "ok"
     /\ ~HasValidFencedBlock(pj.text)) =>
        (~pj.raised /\ pj.val = JNull)

(***************************************************************************)
(* The intent engines.                                                     *)
(***************************************************************************)
\* the field set of an intent's record
FieldsOf(op) ==
    IF op = "generate_summary_and_reply"
    THEN {K_summary, K_draft_reply, K_detected_date, K_meeting_title}
    ELSE {K_target_name, K_draft_text, K_extracted_date, K_meeting_title}

DateFieldOf(op) ==
    IF op = "generate_summary_and_reply" THEN K_detected_date
    ELSE K_extracted_date

HasFields(v, keys) == \A key \in keys : HasKey(v, key)

\* the backend raised or the sanitizer gave no result
NoSanitizedResult(be) ==
    \/ be.raises
    \/ _clean_and_parse_json(be.content).raised
    \/ _clean_and_parse_json(be.content).val = JNull

\* C9: every engine call returns one record with the four fields of its
\* intent and lets no exception escape; when the backend raises or the
\* sanitizer gives no result it is the fallback ("Hata" as the title, the
\* date null), and when the sanitizer succeeds it has all four fields.
C9_WellShaped ==
    eng.done =>
        /\ ~eng.raised
        /\ HasFields(eng.val, FieldsOf(eng.op))
        /\ NoSanitizedResult(eng.be) =>
              /\ Get(eng.val, K_meeting_title) = JStr(Hata)
              /\ Get(eng.val, DateFieldOf(eng.op)) = JNull

(***************************************************************************)
(* The Worker.                                                             *)
(***************************************************************************)
\* the calls of find_email_by_name issued so far
ResolveCalls ==
    {i \in 1..Len(w.tool_calls) : w.tool_calls[i].tool = "find_email_by_name"}

\* an awaited call of the session raised: opening, initializing or a tool
TransportFailed == w.failed \in {"open", "initialize", "call_tool"}

\* C1: every Worker run, whatever its task and whether the gateway and
\* engine calls return or raise, emits the finished signal exactly once:
\* never more than one signal, and eventually one signal for good (every
\* awaited call eventually returning or raising).
C1_ExactlyOnce ==
    /\ [](Len(w.emitted) <= 1)
    /\ <>[](Len(w.emitted) = 1)

\* a run that ended on the error path with its one signal
C1_Witness ==
    /\ w.pc = "done"
    /\ w.exc # NoExc
    /\ w.emitted = <<ErrorResult(w.exc)>>

\* C2: a send_reply run in which opening the session, initializing it or
\* the tool call raised ends with exactly one result, of status error and
\* with a msg that is not empty.
C2_TransportError ==
    (w.task = "send_reply" /\ TransportFailed /\ w.pc = "done") =>
        /\ Len(w.emitted) = 1
        /\ Get(w.emitted[1], K_status) = JStr(S_error)
        /\ Get(w.emitted[1], K_msg).t = "str"
        /\ Get(w.emitted[1], K_msg).s # <<>>

\* C3: a process_command run in which the engine decided a non-empty
\* target_name and the resolver answered that it matches nobody ends with
\* a result of status command_processed whose found_email is null.
C3_Unmatched ==
    (/\ w.task = "process_command"
     /\ Truthy(Get(w.ai, K_target_name))
     /\ w.resolved
     /\ w.text \in {BULUNAMADI, RehberBos}
     /\ w.failed = ""
     /\ w.pc = "done") =>
        /\ Len(w.emitted) = 1
        /\ Get(w.emitted[1], K_status) = JStr(S_command_processed)
        /\ Get(w.emitted[1], K_found_email) = JNull

\* C10: within a process_command run find_email_by_name is called at most
\* once, only after decide_action returned, only with the target_name it
\* returned, and never when that target_name is absent or empty.
C10_ResolveOrder ==
    /\ Cardinality(ResolveCalls) <= 1
    /\ \A i \in ResolveCalls :
          /\ w.task = "process_command"
          /\ w.tool_calls[i].decided
          /\ w.tool_calls[i].arg = Get(w.ai, K_target_name)
          /\ w.tool_calls[i].arg # JNull
          /\ w.tool_calls[i].arg # JStr(<<>>)

\* a run that resolved the decided name and is over
C10_Witness ==
    /\ w.pc = "done"
    /\ w.resolved
    /\ ResolveCalls # {}
    /\ HasKey(w.ai, K_target_name)

\* C11: a Worker enters at most one session, every tool call of its task
\* goes through that session while it is open, the session is released
\* before the signal is emitted, and the event loop is closed only after
\* the signal, on every exit path.
C11_ScopedSession ==
    /\ w.opened <= 1
    /\ \A i \in 1..Len(w.tool_calls) :
          w.opened = 1 /\ w.tool_calls[i].session = "open"
    /\ w.emitted # <<>> => w.session # "open"
    /\ w.loop = "closed" => w.emitted # <<>>
    /\ w.pc = "done" => w.loop = "closed"

\* a run whose tool call raised, over with the session released, the signal
\* emitted and the loop closed
C11_Witness ==
    /\ w.pc = "done"
    /\ w.failed = "call_tool"
    /\ w.opened = 1
    /\ w.session = "released"
    /\ w.loop = "closed"
    /\ Len(w.emitted) = 1

(***************************************************************************)
(* The sheet id cache of the server process.                               *)
(***************************************************************************)
\* C12: in one server process, once the cached sheet id is set no call
\* changes it, and no later call searches Drive or creates a sheet.
C12_CacheOnce ==
    [][cached_sheet_id # NoId =>
          /\ cached_sheet_id' = cached_sheet_id
          /\ sheets' = sheets
          /\ ~srv'.searched
          /\ ~srv'.created]_vars

\* a second call of find_email that was served from the cache
C12_Witness ==
    /\ calls = MaxCalls
    /\ srv.op = "find_email"
    /\ cached_sheet_id # NoId
    /\ ~srv.searched
    /\ srv.read

\* C13: a sheet is created only when none exists: where Drive held a sheet
\* when the processes started none is added, also when the search fails,
\* and processes that start side by side add at most one duplicate.
C13_CreateIfAbsent ==
    /\ boot.pc # <<>> /\ boot.existed => Len(sheets) = 1
    /\ boot.pc # <<>> => Len(sheets) <= 2

(***************************************************************************)
(* C14.  The window keeps one reference, to the Worker started last, and   *)
(* no slot looks at it: whenever the finished signal of a Worker of        *)
(* analyze_last_mail or process_command is delivered with a status other   *)
(* than error, its slot writes the draft, the recipient and, when the      *)
(* result names one, the date of that result, also when a newer Worker has *)
(* been started and has already delivered.                                 *)
(***************************************************************************)
\* the task of the signal delivered as number i
TaskOfDelivery(i) == ui.tasks[ui.delivered[i].id].task

\* the draft, the recipient and the date a result carries
DraftOf(task, res) ==
    Get(res, IF task = "analyze_last_mail" THEN K_draft_reply ELSE K_draft_text)

RecipientOf(task, res) ==
    Get(res, IF task = "analyze_last_mail" THEN K_sender ELSE K_found_email)

DateOf(task, res) ==
    Get(res, IF task = "analyze_last_mail" THEN K_detected_date
             ELSE K_extracted_date)

\* signal i came from analyze_last_mail or process_command and its slot
\* wrote the draft area
Wrote(i) ==
    /\ TaskOfDelivery(i) \in {"analyze_last_mail", "process_command"}
    /\ Get(ui.delivered[i].res, K_status) # JStr(S_error)
    /\ DraftOf(TaskOfDelivery(i), ui.delivered[i].res).t = "str"
    /\ TaskOfDelivery(i) = "analyze_last_mail" =>
           Get(ui.delivered[i].res, K_summary).t = "str"

C14_LateResultApplied ==
    /\ [](ui.worker = Len(ui.tasks))
    /\ [][Len(ui'.delivered) = Len(ui.delivered) + 1 =>
            LET d == ui'.delivered[Len(ui'.delivered)]
                task == ui.tasks[d.id].task
            IN  /\ task \in {"analyze_last_mail", "process_command"}
                /\ Get(d.res, K_status) # JStr(S_error)
                /\ ~ui'.crashed
                => /\ JStr(ui'.txt_draft) = DraftOf(task, d.res)
                   /\ ui'.lbl_to = IF Truthy(RecipientOf(task, d.res))
                                    THEN RecipientOf(task, d.res)
                                    ELSE NotInDirectory
                   /\ Truthy(DateOf(task, d.res)) =>
                          ui'.detected_date = DateOf(task, d.res)]_vars

\* the signal of the older Worker is delivered after the newer Worker, to
\* which self.worker refers, has delivered: the draft, the recipient and
\* the date on display are those of the older result and differ from those
\* the newer result had written
C14_Witness ==
    /\ ~ui.crashed
    /\ Len(ui.delivered) = 2
    /\ ui.delivered[2].id < ui.delivered[1].id
    /\ ui.worker = ui.delivered[1].id
    /\ Wrote(1)
    /\ Wrote(2)
    /\ JStr(ui.txt_draft) = DraftOf(TaskOfDelivery(2), ui.delivered[2].res)
    /\ JStr(ui.txt_draft) # DraftOf(TaskOfDelivery(1), ui.delivered[1].res)
    /\ ui.lbl_to = RecipientOf(TaskOfDelivery(2), ui.delivered[2].res)
    /\ ui.lbl_to # RecipientOf(TaskOfDelivery(1), ui.delivered[1].res)
    /\ Truthy(RecipientOf(TaskOfDelivery(1), ui.delivered[1].res))
    /\ ui.detected_date = DateOf(TaskOfDelivery(2), ui.delivered[2].res)
    /\ ui.detected_date # DateOf(TaskOfDelivery(1), ui.delivered[1].res)
    /\ Truthy(DateOf(TaskOfDelivery(1), ui.delivered[1].res))

(***************************************************************************)
(* C15.  Whenever the send button is enabled, current_sender, the          *)
(* recipient send_mail puts into the payload of send_reply, is not None    *)
(* and is the address the 'To' label shows.                                *)
(***************************************************************************)
C15_SendRecipient ==
    ui.btn_send /\ ~ui.crashed =>
        /\ ui.current_sender # JNull
        /\ ui.current_sender = ui.lbl_to

(***************************************************************************)
(* C16.  A send_reply Worker emits status sent only when send_email_action *)
(* sent the message, and the window shows the notice "Mail Gonderildi!"    *)
(* only for such a Worker: not when the tool returned its "Hata: ..." text *)
(* and not when the Worker emitted status error.                           *)
(***************************************************************************)
\* the finished signals of send_reply Workers delivered so far
SendDeliveries ==
    {i \in 1..Len(ui.delivered) : TaskOfDelivery(i) = "send_reply"}

\* the message was sent: the tool returned "Mail Gonderildi!" and the
\* Worker emitted status sent
ReallySent(i) ==
    /\ ui.delivered[i].text = MailGonderildi
    /\ Get(ui.delivered[i].res, K_status) = JStr(S_sent)

SentNotices ==
    {j \in 1..Len(ui.notices) :
        ui.notices[j] = Notice("information", "Bilgi", MailGonderildi)}

C16_SentOnlyIfSent ==
    /\ \A i \in SendDeliveries :
           Get(ui.delivered[i].res, K_status) = JStr(S_sent) => ReallySent(i)
    /\ Cardinality(SentNotices)
           <= Cardinality({i \in SendDeliveries : ReallySent(i)})

(***************************************************************************)
(* C17.  In every result of process_command, found_email is None or the    *)
(* address of a record of the contact table: no sentinel of the resolver   *)
(* ("BULUNAMADI", "Rehber bos.", "HATA: ...") is taken for an address.     *)
(***************************************************************************)
\* the addresses of the records of the contact tables
TableEmails ==
    UNION {{JStr(EmailAt(sheets[s], i)) : i \in Records(sheets[s])} :
              s \in 1..Len(sheets)}

C17_FoundEmailFromTable ==
    \A i \in 1..Len(w.emitted) :
        /\ w.task = "process_command"
        /\ Get(w.emitted[i], K_status) # JStr(S_error)
        => Get(w.emitted[i], K_found_email) \in {JNull} \cup TableEmails

====
